---- MODULE Spec2Model ----
(***************************************************************************)
(* A model of streamlit_app.py (Meb Faber tactical asset allocation):      *)
(* load_history, calc_10month_sma and calc_evolution.                      *)
(*                                                                         *)
(* A DataFrame is a record of columns (sequences of equal length); the     *)
(* DatetimeIndex is the column Date.  Dates are day numbers, prices are    *)
(* positive integers and every derived quantity is an exact rational       *)
(* <<numerator, denominator>> in lowest terms; NaN is <<0, 0>>.            *)
(***************************************************************************)
EXTENDS Integers, Sequences, FiniteSets

VARIABLES
    raw,      \* what ticker.history("max") returned: [Date, Close]
    history,  \* the DataFrame `history`, shared by reference between the calls
    sma,      \* the DataFrame `sma` returned by calc_10month_sma
    out,      \* the three series returned by calc_evolution
    params,   \* tax_prc and ini_amount of the run
    pc,       \* "raw", "loaded", "sma", "evolved" or "failed"
    err,      \* the exception that ended the last call, or "none"
    run,      \* how many times the stages were started on this history object
    orig,     \* the history as it was handed to the first calc_10month_sma
    first     \* what the first completed run returned

vars == <<raw, history, sma, out, params, pc, err, run, orig, first>>

---------------------------------------------------------------------------
(* Bounds: the months of the longest series, and how often the stages are  *)
(* started on one series object.                                           *)

MaxMonths == 12

MaxRuns == 2

---------------------------------------------------------------------------
(* Exact rational arithmetic.                                              *)

RECURSIVE GCD(_, _)
GCD(a, b) == IF b = 0 THEN a ELSE GCD(b, a % b)

Abs(x) == IF x < 0 THEN -x ELSE x

NaN == <<0, 0>>

IsNaN(q) == q[2] = 0

Norm(n, d) ==
    LET g == GCD(Abs(n), Abs(d))
        s == IF d < 0 THEN -1 ELSE 1
    IN  <<s * (n \div g), s * (d \div g)>>

Rat(n) == <<n, 1>>

Frac(n, d) == Norm(n, d)

RMul(p, q) ==
    IF IsNaN(p) \/ IsNaN(q) THEN NaN
    ELSE LET a == Norm(p[1], q[2])
             b == Norm(q[1], p[2])
         IN  <<a[1] * b[1], a[2] * b[2]>>

RDiv(p, q) ==
    IF IsNaN(p) \/ IsNaN(q) \/ q[1] = 0 THEN NaN
    ELSE RMul(p, Norm(q[2], q[1]))

RAdd(p, q) ==
    IF IsNaN(p) \/ IsNaN(q) THEN NaN
    ELSE Norm(p[1] * q[2] + q[1] * p[2], p[2] * q[2])

RSub(p, q) == RAdd(p, <<-q[1], q[2]>>)

RLess(p, q) == ~IsNaN(p) /\ ~IsNaN(q) /\ p[1] * q[2] < q[1] * p[2]

RECURSIVE RProd(_)
RProd(s) == IF s = <<>> THEN Rat(1) ELSE RMul(Head(s), RProd(Tail(s)))

RECURSIVE ISum(_)
ISum(s) == IF s = <<>> THEN 0 ELSE Head(s) + ISum(Tail(s))

RECURSIVE IProd(_)
IProd(s) == IF s = <<>> THEN 1 ELSE Head(s) * IProd(Tail(s))

Last(s) == s[Len(s)]

Range(s) == {s[i] : i \in DOMAIN s}

\* a column built row by row, as a sequence of values
AsSeq(f) == f \o <<>>

RECURSIVE Sorted(_)
Sorted(S) ==
    IF S = {} THEN <<>>
    ELSE LET m == CHOOSE x \in S : \A y \in S : x <= y
         IN  <<m>> \o Sorted(S \ {m})

---------------------------------------------------------------------------
(* The calendar: to_period("M"), Period.to_timestamp and BMonthEnd.        *)
(* Day 0 is a Wednesday; a month has MonthDays days and a week 7, of which *)
(* the last two are the weekend.                                           *)

MonthDays == 30

EpochWeekday == 2

Weekday(d) == (d + EpochWeekday) % 7

IsBusinessDay(d) == Weekday(d) < 5

ToPeriod(d) == d \div MonthDays

ToTimestamp(m) == m * MonthDays

MonthLastDay(m) == m * MonthDays + (MonthDays - 1)

\* the last business day of month m: its last day, moved back over a weekend
BusinessEnd(m) ==
    LET d == MonthLastDay(m)
    IN  IF IsBusinessDay(d) THEN d
        ELSE IF IsBusinessDay(d - 1) THEN d - 1 ELSE d - 2

\* the first business day of month m: its first day, moved on over a weekend
BusinessStart(m) ==
    LET d == ToTimestamp(m)
    IN  IF IsBusinessDay(d) THEN d
        ELSE IF IsBusinessDay(d + 1) THEN d + 1 ELSE d + 2

\* d + pd.tseries.offsets.BMonthEnd(): the business month end of d's month when
\* d lies before it, and the one of the next month otherwise
BMonthEnd(d) ==
    IF d < BusinessEnd(ToPeriod(d)) THEN BusinessEnd(ToPeriod(d))
    ELSE BusinessEnd(ToPeriod(d) + 1)

---------------------------------------------------------------------------
(* DataFrames.                                                             *)

NoSma == [Date |-> <<>>, SMA |-> <<>>, Close |-> <<>>, In |-> <<>>,
          Buy |-> <<>>, Sell |-> <<>>]

NoOut == [bh |-> <<>>, strategy |-> <<>>, flat |-> <<>>]

NoParams == [tax |-> 0, ini |-> 0]

\* the positions at which the boolean mask holds, in order
Positions(mask) ==
    LET m == AsSeq(mask)
    IN  SelectSeq(AsSeq([i \in 1..Len(m) |-> i]), LAMBDA i : m[i])

Take(col, idx) == IF col = <<>> THEN <<>> ELSE AsSeq([k \in 1..Len(idx) |-> col[idx[k]]])

\* frame[mask]: every column restricted to the rows at which mask holds
SelectRows(h, mask) ==
    LET idx == Positions(mask)
    IN  [c \in DOMAIN h |-> IF c = "cols" THEN h[c] ELSE Take(h[c], idx)]

NewHistory(dates, closes) ==
    [Date |-> dates, Close |-> closes,
     Month |-> AsSeq([i \in 1..Len(dates) |-> ToPeriod(dates[i])]),
     cols |-> {"Close", "Month"},
     In |-> <<>>, ChangePct |-> <<>>, ChangePctStrategy |-> <<>>, DateCol |-> <<>>]

NoHistory == NewHistory(<<>>, <<>>)

---------------------------------------------------------------------------
(* load_history                                                            *)

\* lines 32-40 on a non-empty download; <<"IndexError", _>> when nothing is left
\* after the first trim and history.index[-1] raises
LoadHistoryFrame(r) ==
    LET h0       == NewHistory(r.Date, r.Close)
        last_dom == BMonthEnd(h0.Date[1])
        h1       == SelectRows(h0, [i \in 1..Len(h0.Date) |-> h0.Date[i] > last_dom])
    IN  IF h1.Date = <<>> THEN <<"IndexError", h1>>
        ELSE LET first_dom == ToTimestamp(ToPeriod(Last(h1.Date)))
             IN  <<"none", SelectRows(h1, [i \in 1..Len(h1.Date) |-> h1.Date[i] < first_dom])>>

LoadHistory ==
    /\ pc = "raw"
    /\ IF Len(raw.Date) = 0
       THEN /\ err' = "TickerNotFoundException"
            /\ pc' = "failed"
            /\ UNCHANGED history
       ELSE LET res == LoadHistoryFrame(raw)
            IN  /\ err' = res[1]
                /\ history' = IF res[1] = "none" THEN res[2] ELSE history
                /\ pc' = IF res[1] = "none" THEN "loaded" ELSE "failed"
    /\ UNCHANGED <<raw, sma, out, params, run, orig, first>>

---------------------------------------------------------------------------
(* calc_10month_sma                                                        *)

Window == 10

\* Series.unique(): the distinct values in order of first appearance
Unique(s) == Take(s, Positions([i \in 1..Len(s) |-> \A j \in 1..(i - 1) : s[j] # s[i]]))

\* history.groupby("Month")["Close"].sum() and .count(), read at month m
MonthSum(h, m) ==
    ISum(Take(h.Close, Positions([i \in 1..Len(h.Date) |-> h.Month[i] = m])))

MonthCount(h, m) == Len(Positions([i \in 1..Len(h.Date) |-> h.Month[i] = m]))

\* a window one month short
RollingSumShort(s, w) ==
    IF Len(s) < w THEN <<>>
    ELSE AsSeq([k \in 1..(Len(s) - w + 1) |-> ISum(SubSeq(s, k + 1, k + w - 1))])

\* rolling(w).sum().dropna(): one row per position from the w-th on, the sum of
\* the w values ending there
RollingSum(s, w) ==
    IF Len(s) < w THEN <<>>
    ELSE AsSeq([k \in 1..(Len(s) - w + 1) |-> ISum(SubSeq(s, k, k + w - 1))])

\* the mean the window's sums and counts give
WindowMean(sum, count) == Frac(sum, count)

\* Series.diff(): NaN in the first row
Diff(s) == AsSeq([i \in 1..Len(s) |-> IF i = 1 THEN NaN ELSE Rat(s[i] - s[i - 1])])

IsIn(close, mean) == IF RLess(mean, Rat(close)) THEN 1 ELSE 0

IsBuy(d) == d = Rat(1)

\* the sell flag computed like the buy flag
IsSellAsBuy(d) == d = Rat(1)

IsSell(d) == d = Rat(-1)

\* history.reset_index().groupby("Month").last()["Date"]: the last date of each
\* month, months ascending
MonthLastDates(h) ==
    LET months == Sorted(Range(h.Month))
    IN  AsSeq([k \in 1..Len(months) |->
            Last(Take(h.Date, Positions([i \in 1..Len(h.Date) |-> h.Month[i] = months[k]])))])

\* series[date] for a date of the index
AtDate(h, col, d) == col[CHOOSE i \in 1..Len(h.Date) : h.Date[i] = d]

\* lines 46-51: the table of rolling means, indexed by month
RollingTable(h) ==
    LET months == Unique(h.Month)
        sums   == RollingSum(AsSeq([k \in 1..Len(months) |-> MonthSum(h, months[k])]), Window)
        counts == RollingSum(AsSeq([k \in 1..Len(months) |-> MonthCount(h, months[k])]), Window)
    IN  [Month |-> SubSeq(months, Window, Len(months)),
         SMA   |-> AsSeq([k \in 1..Len(sums) |-> WindowMean(sums[k], counts[k])])]

\* line 52: history.drop(..., inplace=True)
DropBefore(h, day) == SelectRows(h, [i \in 1..Len(h.Date) |-> ~(h.Date[i] < day)])

\* lines 53-57, on the history line 52 left
SmaTable(h, means) ==
    LET dates  == MonthLastDates(h)
        closes == AsSeq([k \in 1..Len(dates) |-> AtDate(h, h.Close, dates[k])])
        in     == AsSeq([k \in 1..Len(dates) |-> IsIn(closes[k], means[k])])
        d      == Diff(in)
    IN  [Date |-> dates, SMA |-> means, Close |-> closes, In |-> in,
         Buy  |-> AsSeq([k \in 1..Len(dates) |-> IsBuy(d[k])]),
         Sell |-> AsSeq([k \in 1..Len(dates) |-> IsSell(d[k])])]

Calc10MonthSma ==
    /\ \/ pc = "loaded"
       \/ pc = "evolved" /\ run < MaxRuns
    /\ run' = run + 1
    /\ orig' = IF run = 0 THEN history ELSE orig
    /\ LET t == RollingTable(history)
       IN  IF t.Month = <<>>
           THEN \* sma.index[0] on an empty table
                /\ err' = "IndexError"
                /\ pc' = "failed"
                /\ UNCHANGED <<history, sma>>
           ELSE LET h == DropBefore(history, ToTimestamp(t.Month[1]))
                IN  /\ history' = h
                    /\ IF "Date" \in h.cols
                       THEN \* reset_index() cannot insert Date, a column already
                            /\ err' = "ValueError"
                            /\ pc' = "failed"
                            /\ UNCHANGED sma
                       ELSE /\ err' = "none"
                            /\ pc' = "sma"
                            /\ sma' = SmaTable(h, t.SMA)
    /\ UNCHANGED <<raw, out, params, first>>

---------------------------------------------------------------------------
(* calc_evolution                                                          *)

TaxRates == {0, 26, 100}

IniAmounts == {10000}

\* line 65: sma["In"].diff() aligned on the index of history, NaN on the days
\* that are no row of sma
AlignedDiff(h, s) ==
    LET d == Diff(s.In)
    IN  AsSeq([i \in 1..Len(h.Date) |->
            IF \E k \in 1..Len(s.Date) : s.Date[k] = h.Date[i]
            THEN d[CHOOSE k \in 1..Len(s.Date) : s.Date[k] = h.Date[i]]
            ELSE NaN])

\* line 66: fillna(0); the values left are whole numbers
FillNa0(col) == AsSeq([i \in 1..Len(col) |-> IF IsNaN(col[i]) THEN 0 ELSE col[i][1]])

\* lines 67-68: history[history["In"] == v].index, the dates in order
DatesWhereIn(h, col, v) == Take(h.Date, Positions([i \in 1..Len(col) |-> col[i] = v]))

\* the comparison of line 69 turned around
StartsInSwapped(first_sell, first_buy) == first_buy < first_sell

\* line 69: whether the first day is forced to 1
StartsIn(first_sell, first_buy) == first_sell < first_buy

\* line 71
RECURSIVE CumSum(_)
CumSum(col) ==
    IF Len(col) <= 1 THEN col
    ELSE LET front == CumSum(SubSeq(col, 1, Len(col) - 1))
         IN  Append(front, Last(front) + Last(col))

\* lines 77 and 95
RECURSIVE CumProd(_)
CumProd(col) ==
    IF Len(col) <= 1 THEN col
    ELSE LET front == CumProd(SubSeq(col, 1, Len(col) - 1))
         IN  Append(front, RMul(Last(front), Last(col)))

\* lines 72-73: pct_change() + 1, the first day set to 1
ChangePctOf(close) ==
    AsSeq([i \in 1..Len(close) |-> IF i = 1 THEN Rat(1) ELSE Frac(close[i], close[i - 1])])

\* lines 74-75
StrategyFactor(in, changePct) == IF in # 1 THEN Rat(1) ELSE changePct

\* line 80: the groups of (In != In.shift()).cumsum() are the maximal runs of
\* equal consecutive values: the first and last position of the run holding i
RunStart(in, i) ==
    CHOOSE a \in 1..i :
        /\ \A j \in (a + 1)..i : in[j] = in[j - 1]
        /\ a = 1 \/ in[a] # in[a - 1]

IsRunEnd(in, i) == i = Len(in) \/ in[i + 1] # in[i]

\* line 86
TaxedProd(prod, tax) == RAdd(RMul(RSub(prod, Rat(1)), RSub(Rat(1), Frac(tax, 100))), Rat(1))

\* lines 80-91: the factor of the run of in that ends at position e
GainFactor(in, changePct, e, tax) ==
    LET a        == RunStart(in, e)
        inProd   == IProd(SubSeq(in, a, e))
        prod     == RProd(SubSeq(changePct, a, e))
        but_last == RProd(SubSeq(changePct, a, e - 1))
    IN  IF inProd = 0 THEN Rat(1) ELSE RDiv(TaxedProd(prod, tax), but_last)

\* line 93: the last day of every run takes the factor of its run
WithGain(in, changePct, strategyPct, tax) ==
    AsSeq([i \in 1..Len(in) |->
        IF IsRunEnd(in, i) THEN GainFactor(in, changePct, i, tax) ELSE strategyPct[i]])

Scale(col, ini) == AsSeq([i \in 1..Len(col) |-> RMul(col[i], Rat(ini))])

\* lines 97-98
FlatZones(in, strategy) ==
    AsSeq([i \in 1..Len(in) |-> IF in[i] = 0 THEN strategy[i] ELSE NaN])

CalcEvolution ==
    /\ pc = "sma"
    /\ \E tax \in TaxRates, ini \in IniAmounts :
        LET in0   == FillNa0(AlignedDiff(history, sma))
            h0    == [history EXCEPT !.In = in0, !.cols = @ \cup {"In"}]
            sells == DatesWhereIn(h0, in0, -1)
            buys  == DatesWhereIn(h0, in0, 1)
        IN  /\ params' = [tax |-> tax, ini |-> ini]
            /\ IF sells = <<>> \/ buys = <<>>
               THEN \* .index[0] of an empty index, line 67 or 68
                    /\ err' = "IndexError"
                    /\ pc' = "failed"
                    /\ history' = h0
                    /\ UNCHANGED <<out, first>>
               ELSE LET in1  == IF StartsIn(sells[1], buys[1])
                                THEN [in0 EXCEPT ![1] = 1] ELSE in0
                        in   == CumSum(in1)
                        cp   == ChangePctOf(h0.Close)
                        cps0 == AsSeq([i \in 1..Len(in) |-> StrategyFactor(in[i], cp[i])])
                        cps  == WithGain(in, cp, cps0, tax)
                        strategy == Scale(CumProd(cps), ini)
                        res  == [bh |-> Scale(CumProd(cp), ini),
                                 strategy |-> strategy,
                                 flat |-> FlatZones(in, strategy)]
                    IN  /\ err' = "none"
                        /\ pc' = "evolved"
                        /\ history' = [h0 EXCEPT !.In = in, !.ChangePct = cp,
                                                 !.ChangePctStrategy = cps,
                                                 !.DateCol = h0.Date,
                                                 !.cols = @ \cup {"In", "ChangePct",
                                                     "ChangePctStrategy", "Date"}]
                        /\ out' = res
                        /\ first' = IF run = 1 THEN [sma |-> sma, out |-> res] ELSE first
    /\ UNCHANGED <<raw, sma, run, orig>>

---------------------------------------------------------------------------
(* The histories the stages are run on: month-tagged daily series of whole *)
(* months, as load_history returns them.  The first month holds one or two *)
(* days, the next eight one day at price 2, and each later month one day   *)
(* (its business month end) at a price of Closes, or two (its first and    *)
(* last business day) at prices of Closes whose mean is 2.                 *)

Closes == {1, 2, 3}

MonthCloses ==
    {<<c>> : c \in Closes} \cup {<<c, 4 - c>> : c \in Closes}

FirstMonthCloses == {<<2>>, <<3, 3>>}

MonthDates(m, closes) ==
    IF Len(closes) = 1 THEN <<BusinessEnd(m)>> ELSE <<BusinessStart(m), BusinessEnd(m)>>

RECURSIVE Flatten(_)
Flatten(ss) == IF ss = <<>> THEN <<>> ELSE Head(ss) \o Flatten(Tail(ss))

\* months is a sequence of per-month close sequences, month 0 first
HistoryOf(months) ==
    NewHistory(Flatten(AsSeq([m \in 1..Len(months) |-> MonthDates(m - 1, months[m])])),
               Flatten(months))

Inputs ==
    { HistoryOf(<<p>> \o [m \in 1..(Window - 2) |-> <<2>>] \o f) :
        p \in FirstMonthCloses,
        f \in UNION {[1..k -> MonthCloses] : k \in 0..(MaxMonths - Window + 1)} }

Init ==
    /\ raw = [Date |-> <<>>, Close |-> <<>>]
    /\ history \in Inputs
    /\ sma = NoSma
    /\ out = NoOut
    /\ params = NoParams
    /\ pc = "loaded"
    /\ err = "none"
    /\ run = 0
    /\ orig = NoHistory
    /\ first = [sma |-> NoSma, out |-> NoOut]

Next == Calc10MonthSma \/ CalcEvolution

Spec == Init /\ [][Next]_vars

---------------------------------------------------------------------------
(* Properties of calc_10month_sma.                                         *)

HasTable == pc \in {"sma", "evolved"}

Rows == 1..Len(sma.Date)

BuyRows == {k \in Rows : sma.Buy[k]}

SellRows == {k \in Rows : sma.Sell[k]}

\* C5: Buy and Sell come from the row-to-row change of In alone: no row has
\* both, the first row has neither, buys and sells alternate in time, and their
\* numbers differ by at most one.
C5_FlagsAlternate ==
    HasTable =>
        /\ \A k \in Rows : ~(sma.Buy[k] /\ sma.Sell[k])
        /\ Rows # {} => ~sma.Buy[1] /\ ~sma.Sell[1]
        /\ \A k \in Rows \ {1} :
              /\ sma.Buy[k] <=> (sma.In[k - 1] = 0 /\ sma.In[k] = 1)
              /\ sma.Sell[k] <=> (sma.In[k - 1] = 1 /\ sma.In[k] = 0)
        /\ \A i, j \in BuyRows : i < j => \E k \in SellRows : i < k /\ k < j
        /\ \A i, j \in SellRows : i < j => \E k \in BuyRows : i < k /\ k < j
        /\ Cardinality(BuyRows) - Cardinality(SellRows) \in {-1, 0, 1}

\* a table with a buy and, later, a sell
C5_Witness ==
    HasTable /\ \E i \in BuyRows : \E j \in SellRows : i < j

\* the months of the series handed in are ranked in time order from 1; the days
\* of the ten months that end with the month of rank k
InputMonths == Range(orig.Month)

RankOf(m) == Cardinality({x \in InputMonths : x <= m})

WindowDays(k) ==
    {i \in 1..Len(orig.Date) : RankOf(orig.Month[i]) \in (k - Window + 1)..k}

RECURSIVE CloseTotal(_)
CloseTotal(S) ==
    IF S = {} THEN 0
    ELSE LET i == CHOOSE x \in S : TRUE IN orig.Close[i] + CloseTotal(S \ {i})

\* the last day of the month of rank k
MonthEndDay(k) ==
    CHOOSE i \in 1..Len(orig.Date) :
        /\ RankOf(orig.Month[i]) = k
        /\ i = Len(orig.Date) \/ orig.Month[i + 1] # orig.Month[i]

\* C6: the first calc_10month_sma on a series of N >= 10 months returns N - 9
\* rows, one per month from the tenth on; the SMA of the row of month k is the
\* sum of the daily closes of months k-9..k divided by the number of those days,
\* and its Date and Close are the last day of month k and its close.
C6_DayWeightedWindow ==
    (run = 1 /\ params = NoParams /\ Cardinality(InputMonths) >= Window) =>
        /\ pc = "sma"
        /\ Len(sma.Date) = Cardinality(InputMonths) - Window + 1
        /\ \A r \in Rows :
             /\ sma.Date[r] = orig.Date[MonthEndDay(r + Window - 1)]
             /\ sma.Close[r] = orig.Close[MonthEndDay(r + Window - 1)]
             /\ sma.SMA[r][1] * Cardinality(WindowDays(r + Window - 1))
                    = CloseTotal(WindowDays(r + Window - 1)) * sma.SMA[r][2]
             /\ sma.SMA[r][2] > 0

\* a table of three rows whose first window holds months of one and of two days
C6_Witness ==
    /\ pc = "sma" /\ run = 1
    /\ Len(sma.Date) >= 3
    /\ Cardinality(WindowDays(Window)) > Window
    /\ sma.SMA[1] # sma.SMA[2]

---------------------------------------------------------------------------
(* Properties of calc_evolution.                                           *)

Days == 1..Len(history.Date)

DayOf(date) == CHOOSE i \in Days : history.Date[i] = date

\* the strategy value at the close of day i; day 0 is the start
ValueAt(i) == IF i = 0 THEN Rat(params.ini) ELSE out.strategy[i]

\* close[i] / close[i - 1], and 1 on the first day
PriceFactor(i) ==
    IF i = 1 THEN Rat(1) ELSE Frac(history.Close[i], history.Close[i - 1])

RECURSIVE Compounded(_, _)
Compounded(a, e) == IF e < a THEN Rat(1) ELSE RMul(Compounded(a, e - 1), PriceFactor(e))

\* the maximal runs of days in the market, as <<first day, last day>>
InSegments ==
    {<<a, e>> \in Days \X Days :
        /\ a <= e
        /\ \A i \in a..e : history.In[i] = 1
        /\ a = 1 \/ history.In[a - 1] # 1
        /\ e = Len(history.Date) \/ history.In[e + 1] # 1}

CalledEvolution == run = 1 /\ params # NoParams /\ pc \in {"evolved", "failed"}

\* C1: a segment in the market whose compounded price factor is at most 1 ends at
\* its starting value times that factor, whatever the tax rate.
C1_NoTaxOnLoss ==
    (pc = "evolved") =>
        \A seg \in InSegments :
            ~RLess(Rat(1), Compounded(seg[1], seg[2])) =>
                out.strategy[seg[2]]
                    = RMul(ValueAt(seg[1] - 1), Compounded(seg[1], seg[2]))

\* C2: when the series ends in the market, every day of the last segment has
\* the plain price factor, and the final value is the segment's starting value
\* times its compounded price factor.
C2_OpenSegmentUntaxed ==
    (pc = "evolved" /\ Last(history.In) = 1) =>
        \A seg \in InSegments :
            seg[2] = Len(history.Date) =>
                /\ \A i \in seg[1]..seg[2] : history.ChangePctStrategy[i] = PriceFactor(i)
                /\ Last(out.strategy)
                      = RMul(ValueAt(seg[1] - 1), Compounded(seg[1], seg[2]))

\* C3: with one buy on day d and then one sell on day s, starting out of the
\* market: the value is ini_amount before d, follows the close day by day
\* between d and s, is the value of d times 1 + gain * (1 - tax/100) on s, where
\* gain is the change of the close from d to s (so the realization lands on s
\* and, with no tax, s still follows the close), and stays there after s.
C3_OneBuyOneSell ==
    (/\ pc = "evolved"
     /\ Cardinality(BuyRows) = 1 /\ Cardinality(SellRows) = 1
     /\ sma.In[1] = 0) =>
        LET d == DayOf(sma.Date[CHOOSE k \in BuyRows : TRUE])
            s == DayOf(sma.Date[CHOOSE k \in SellRows : TRUE])
            total == Frac(history.Close[s], history.Close[d])
        IN  /\ d < s
            /\ \A i \in 1..(d - 1) : out.strategy[i] = Rat(params.ini)
            /\ \A i \in (d + 1)..(s - 1) :
                   out.strategy[i] = RMul(out.strategy[i - 1], PriceFactor(i))
            /\ out.strategy[s]
                  = RMul(out.strategy[d],
                         RAdd(Rat(1), RMul(RSub(total, Rat(1)),
                                           Frac(100 - params.tax, 100))))
            /\ \A i \in (s + 1)..Len(history.Date) : out.strategy[i] = out.strategy[s]

\* C4: with a sell and no buy in the table, calc_evolution returns, starts in
\* the market and stays there until the sell; it raises only when the table has
\* neither a buy nor a sell.
C4_SellWithoutBuy ==
    CalledEvolution =>
        /\ (SellRows # {} /\ BuyRows = {}) =>
              /\ pc = "evolved"
              /\ \A i \in Days :
                    history.Date[i] < sma.Date[CHOOSE k \in SellRows : TRUE]
                        => history.In[i] = 1
        /\ pc = "failed" => (SellRows = {} /\ BuyRows = {})

\* C8: the stages run a second time on the same series object and parameters
\* return what the first run returned.
C8_SecondRunSame ==
    (run = 2) =>
        /\ pc # "failed"
        /\ sma = first.sma
        /\ pc = "evolved" => out = first.out

\* C9: a buy flagged on day d takes effect at the close of d, so the value on d
\* is the value of the day before; a sell flagged on day s takes effect at the
\* close of s, so (tax aside) the value on s still follows the close, and is
\* flat from the next day on.
C9_EffectAtMonthClose ==
    (pc = "evolved") =>
        /\ \A k \in BuyRows :
              LET d == DayOf(sma.Date[k])
              IN  out.strategy[d] = ValueAt(d - 1)
        /\ \A k \in SellRows :
              LET s == DayOf(sma.Date[k])
              IN  /\ params.tax = 0 =>
                        out.strategy[s] = RMul(ValueAt(s - 1), PriceFactor(s))
                  /\ s < Len(history.Date) => out.strategy[s + 1] = out.strategy[s]

\* C10: when calc_evolution returns, the daily state is 0 or 1 on every day, on
\* the last day of every month of the table it is that row's In, and on the
\* first day it is the In of the first row.
C10_DailyStateMatchesTable ==
    (pc = "evolved") =>
        /\ \A i \in Days : history.In[i] \in {0, 1}
        /\ \A k \in Rows : history.In[DayOf(sma.Date[k])] = sma.In[k]
        /\ history.In[1] = sma.In[1]

\* a run that starts in the market, on a month of two days, and buys back later
C10_Witness ==
    /\ pc = "evolved"
    /\ sma.In[1] = 1
    /\ history.Date[1] # sma.Date[1]
    /\ Cardinality(BuyRows) >= 1

---------------------------------------------------------------------------
(* Downloads handed to load_history: every subset of RawDates, which holds *)
(* a mid-month day, the business month end and the first business day of   *)
(* several months, and the Saturday that follows a business month end.     *)

RawDates == {12, 29, 30, 44, 58, 59, 61, 75, 89, 92, 105}

RawClose(d) == 1 + (d % 3)

RawSeries(S) ==
    LET dates == Sorted(S)
    IN  [Date |-> dates, Close |-> AsSeq([i \in 1..Len(dates) |-> RawClose(dates[i])])]

InitLoad ==
    /\ raw \in {RawSeries(S) : S \in SUBSET RawDates}
    /\ history = NoHistory
    /\ sma = NoSma
    /\ out = NoOut
    /\ params = NoParams
    /\ pc = "raw"
    /\ err = "none"
    /\ run = 0
    /\ orig = NoHistory
    /\ first = [sma |-> NoSma, out |-> NoOut]

NextLoad == LoadHistory

SpecLoad == InitLoad /\ [][NextLoad]_vars

\* the month of the first raw observation is fully represented when the series
\* starts no later than that month's first business day
FirstMonthComplete(r) == r.Date[1] <= BusinessStart(ToPeriod(r.Date[1]))

\* C7: the series load_history returns covers only complete calendar months: it
\* holds no observation of the raw series' last month, none of its first month
\* when that month is not fully represented, and every raw observation of each
\* month it holds.
C7_OnlyCompleteMonths ==
    (pc = "loaded" /\ Len(raw.Date) > 0) =>
        LET firstMonth == ToPeriod(raw.Date[1])
            lastMonth  == ToPeriod(Last(raw.Date))
            kept       == Range(history.Date)
        IN  /\ \A d \in kept : ToPeriod(d) # lastMonth
            /\ ~FirstMonthComplete(raw) => \A d \in kept : ToPeriod(d) # firstMonth
            /\ \A d \in kept : \A e \in Range(raw.Date) :
                   ToPeriod(e) = ToPeriod(d) => e \in kept

====
